---- MODULE Spec2Model ----
(***************************************************************************)
(* Verification model of spii's Function (src/source/function.cpp) and     *)
(* ConstrainedFunction (src/source/constrained_function.cpp).              *)
(*                                                                         *)
(* Two specifications share the module:                                    *)
(*   SpecConstrained  the augmented-Lagrangian outer loop of               *)
(*                    ConstrainedFunction::solve,                          *)
(*   Spec             the variable registry, term list and parallel        *)
(*                    evaluation of Function,                              *)
(*   SpecHessian      the same Function evaluated with dense and sparse    *)
(*                    Hessians,                                            *)
(*   SpecStructure    the building of a ConstrainedFunction, is_feasible   *)
(*                    and one solve,                                       *)
(*   SpecPhi          the two evaluators of the Phi wrapper term.          *)
(*                                                                         *)
(* Real numbers are exact.  A real is a record [hi, lo] standing for       *)
(* hi * 10^-1 + lo * 10^-13; sums and integer multiples are componentwise  *)
(* and the order is lexicographic (|lo| stays far below 10^12).            *)
(***************************************************************************)
EXTENDS Integers, Sequences, FiniteSets, TLC

\* ------------------------------------------------------------------ bounds
MaxIterations == 2      \* largest max_number_of_iterations tried
MaxSolves     == 2      \* solve calls per ConstrainedFunction
MaxCFVars     == 1      \* variables registered on the augmented Lagrangian
MaxTerms      == 2      \* terms added to a Function
MaxThreads    == 2      \* largest number_of_threads
MaxObjective  == 1      \* terms added to the objective

\* ------------------------------------------------------- exact real numbers
V(h, l) == [hi |-> h, lo |-> l]
VZero == V(0, 0)
VAdd(a, b) == V(a.hi + b.hi, a.lo + b.lo)
VNeg(a) == V(0 - a.hi, 0 - a.lo)
VSub(a, b) == VAdd(a, VNeg(b))
VScale(k, a) == V(k * a.hi, k * a.lo)
VLess(a, b) == a.hi < b.hi \/ (a.hi = b.hi /\ a.lo < b.lo)
VLeq(a, b) == a = b \/ VLess(a, b)
VMax(a, b) == IF VLess(a, b) THEN b ELSE a
VAbs(a) == IF VLess(a, VZero) THEN VNeg(a) ELSE a

RECURSIVE Pow(_, _)
Pow(b, e) == IF e <= 0 THEN 1 ELSE b * Pow(b, e - 1)

RECURSIVE Log10(_)
\* mu is always a power of ten once solve has started
Log10(m) == IF m < 10 THEN 0 ELSE 1 + Log10(m \div 10)

RECURSIVE Digits(_)
Digits(n) == IF n < 10 THEN 1 ELSE 1 + Digits(n \div 10)

\* 1e-8 and 1e-12 (constrained_function.cpp lines 240 and 150)
ViolationTolerance == V(0, 100000)
FeasibilityTolerance == V(0, 10)

\* nu is always 10^(-n/10) for an integer n >= 1 (nuExp below).
\* v <= 10^(-n/10), decided on tenth powers: v^10 <= 10^-n.
LeqNu(v, n) ==
    IF VLeq(v, VZero) THEN TRUE
    ELSE IF v.hi = 0
         \* v = lo * 10^-13 < 10^(Digits(lo) - 13)
         THEN 10 * Digits(v.lo) <= 130 - n
    ELSE IF v.hi >= 8
         \* v >= 0.8 > 10^-0.1 >= nu
         THEN FALSE
    ELSE IF n > 10
         \* v >= 0.1 > 10^(-n/10)
         THEN FALSE
    ELSE Pow(v.hi, 10) <= Pow(10, 10 - n)

\* ------------------------------------------------------------- the inputs
Names == {"a", "b"}                 \* constraint names
\* c(x) after an inner solve: -0.1, 1e-10, 0.5, 2
CValues == {V(-1, 0), V(0, 1000), V(5, 0), V(20, 0)}
\* objective values after an inner solve, in tenths: 0 and 1
FValues == {0, 10}
\* tolerances, in tenths: 0 and 0.1
TolValues == {0, 1}
\* what the external inner solver may leave in results->exit_condition
InnerExit == {"INTERNAL_ERROR", "ARGUMENT_TOLERANCE"}
ExitConditions == {"INTERNAL_ERROR", "FUNCTION_TOLERANCE", "GRADIENT_TOLERANCE",
                   "NO_CONVERGENCE", "ARGUMENT_TOLERANCE", "NA"}
\* impl->mu is not initialised by the constructor: any value
UninitMu == {0, 7}
NaN == [nan |-> TRUE, v |-> 0]
Num(x) == [nan |-> FALSE, v |-> x]
NoConstraint == [absent |-> TRUE]

VARIABLES
    \* ConstrainedFunction::Implementation
    mu,                 \* shared penalty parameter
    constraints,        \* name -> NoConstraint or Constraint record
    al_variables,       \* augmented_lagrangian.get_number_of_variables()
    \* public fields of ConstrainedFunction
    max_number_of_iterations,
    function_improvement_tolerance,
    dual_change_tolerance,
    \* SolverResults
    exit_condition,
    \* locals of ConstrainedFunction::solve
    pc,                 \* "idle", "call", "update", "returned"
    nuExp,              \* nu = 10^(-nuExp/10)
    f, f_prev,
    iterations,
    \* history
    solver_calls,       \* inner-solver calls made by the current solve
    dual_passes,        \* dual-update passes made by the current solve
    solves              \* solve calls started

VARIABLES
    \* Function
    variables,          \* identity -> NoVariable or AddedVariable
    order,              \* the identities in the order they were inserted
    number_of_scalars,
    terms,              \* sequence of AddedTerm
    number_of_threads,
    local_storage_allocated,
    local_storage,      \* the sizes of the per-worker vectors
    use_openmp,         \* the build: USE_OPENMP defined or not
    thrown,             \* message of the exception the last call ended with
    \* one evaluate call
    epc,                \* "idle", "terms", "returned", "raised", "crashed"
    with_gradient,      \* evaluate(x, gradient) or evaluate(x)
    x,                  \* the solver-space argument
    assignment,         \* term index -> worker running it
    done,               \* term indices whose loop body has run
    thread_value,       \* per worker: its private copy of value
    thread_gradient_storage,
    evaluation_errors,  \* per worker: its error slot
    value, gradient,    \* what evaluate returned
    hessian_kind,       \* the Hessian argument: "none", "dense" or "sparse"
    term_hessian,       \* per term: its block storage (AddedTerm::hessian)
    hessian,            \* the dense matrix or the triplets evaluate wrote
    pattern             \* the triplets create_sparse_hessian wrote for the
                        \* current variables and terms, or NoPattern

VARIABLES
    \* ConstrainedFunction, its structure and the calls made on it
    al_terms,           \* the terms of augmented_lagrangian, in order
    objective_terms,    \* the number of terms of objective
    cthrown,            \* message of the exception the last call ended with
    feasibility,        \* the last is_feasible call: values seen, result
    phi_call            \* one Phi term: its inputs and what it returned

fnvars == <<variables, order, number_of_scalars, terms, number_of_threads,
            local_storage_allocated, local_storage, use_openmp, thrown, epc,
            with_gradient,
            x, assignment, done, thread_value, thread_gradient_storage,
            evaluation_errors, value, gradient, hessian_kind, term_hessian,
            hessian, pattern>>

cfvars == <<mu, constraints, al_variables, max_number_of_iterations,
            function_improvement_tolerance, dual_change_tolerance,
            exit_condition, pc, nuExp, f, f_prev, iterations,
            solver_calls, dual_passes, solves>>

bvars == <<al_terms, objective_terms, cthrown, feasibility, phi_call>>

vars == <<cfvars, fnvars, bvars>>

\* no is_feasible call has been made; no Phi term is looked at
NoCall == [called |-> FALSE]
NoPhi == [constructed |-> FALSE]

\* thread_gradient_storage and thread_gradient_scratch before the first
\* allocation: empty vectors
NoStorage == [threads |-> 0, scalars |-> 0, arity |-> 0, dimension |-> 0,
              resized |-> FALSE]

\* a ConstrainedFunction on which only solve is called
NoStructure ==
    /\ al_terms = <<>>
    /\ objective_terms = 0
    /\ cthrown = ""
    /\ feasibility = NoCall
    /\ phi_call = NoPhi

\* Under SpecConstrained no Function of the second specification exists,
\* and under Spec no ConstrainedFunction.
NoFunction ==
    /\ variables = <<>>
    /\ order = <<>>
    /\ number_of_scalars = 0
    /\ terms = <<>>
    /\ number_of_threads = 1
    /\ local_storage_allocated = FALSE
    /\ local_storage = NoStorage
    /\ use_openmp = FALSE
    /\ thrown = ""
    /\ epc = "none"
    /\ with_gradient = FALSE
    /\ x = <<>>
    /\ assignment = <<>>
    /\ done = {}
    /\ thread_value = <<>>
    /\ thread_gradient_storage = <<>>
    /\ evaluation_errors = <<>>
    /\ value = 0
    /\ gradient = <<>>
    /\ hessian_kind = "none"
    /\ term_hessian = <<>>
    /\ hessian = <<>>
    /\ pattern = [written |-> FALSE, triplets |-> <<>>]

NoConstrainedFunction ==
    /\ mu = 0
    /\ constraints = <<>>
    /\ al_variables = 0
    /\ max_number_of_iterations = 0
    /\ function_improvement_tolerance = 0
    /\ dual_change_tolerance = 0
    /\ exit_condition = "NA"
    /\ pc = "none"
    /\ nuExp = 0
    /\ f = 0
    /\ f_prev = NaN
    /\ iterations = 0
    /\ solver_calls = 0
    /\ dual_passes = 0
    /\ solves = 0

\* class Constraint : lambda = 0, cached_value = 0, an empty Function;
\* nterms is the number of terms of the constraint's own Function.
NewConstraint(k) == [lambda |-> VZero, cached_value |-> VZero, nterms |-> k]

Present == {n \in Names : constraints[n] # NoConstraint}

\* The ConstrainedFunction as built before the first solve: every name is
\* absent, or present with its raw term, or present with an empty Function
\* (add_constraint_term inserts the Constraint before Function::add_term can
\* reject the term, lines 133-135).  The public fields hold any value.
InitCF ==
    /\ mu \in UninitMu
    /\ constraints \in [Names -> {NoConstraint, NewConstraint(0), NewConstraint(1)}]
    /\ al_variables \in 0..MaxCFVars
    /\ max_number_of_iterations \in 0..MaxIterations
    /\ function_improvement_tolerance \in TolValues
    /\ dual_change_tolerance \in TolValues
    /\ exit_condition = "NA"
    /\ pc = "idle"
    /\ nuExp = 0
    /\ f = 0
    /\ f_prev = NaN
    /\ iterations = 0
    /\ solver_calls = 0
    /\ dual_passes = 0
    /\ solves = 0
    /\ NoFunction
    /\ NoStructure

Quiescent == pc \in {"idle", "returned"}

\* solve, lines 157-174
SolveBegin ==
    /\ Quiescent
    /\ solves < MaxSolves
    /\ solves' = solves + 1
    /\ solver_calls' = 0
    /\ dual_passes' = 0
    /\ IF al_variables = 0
       THEN /\ exit_condition' = "FUNCTION_TOLERANCE"
            /\ pc' = "returned"
            /\ UNCHANGED <<mu, nuExp, f_prev, iterations>>
       ELSE /\ exit_condition' = "INTERNAL_ERROR"
            /\ mu' = 10
            /\ nuExp' = Log10(10)
            /\ f_prev' = NaN
            /\ iterations' = 0
            /\ pc' = "call"
    /\ UNCHANGED <<constraints, al_variables, max_number_of_iterations,
                   function_improvement_tolerance, dual_change_tolerance, f>>
    /\ cthrown' = ""
    /\ feasibility' = NoCall
    /\ UNCHANGED <<al_terms, objective_terms, phi_call>>
    /\ UNCHANGED fnvars

\* Function::evaluate() of a constraint: the sum of its terms at the user
\* state the inner solver left; an empty Function evaluates to 0.
ConstraintValues ==
    {cv \in [Names -> CValues \cup {VZero}] :
        \A n \in Names :
            IF constraints[n] = NoConstraint \/ constraints[n].nterms = 0
            THEN cv[n] = VZero
            ELSE cv[n] \in CValues}

\* solve, lines 178-191: the inner solve, then the objective and every
\* constraint are evaluated at the new user state.
SolverCall ==
    /\ pc = "call"
    /\ \E e \in InnerExit : exit_condition' = e
    /\ \E fv \in FValues : f' = fv
    /\ \E cv \in ConstraintValues :
          constraints' = [n \in Names |->
              IF constraints[n] = NoConstraint THEN NoConstraint
              ELSE [constraints[n] EXCEPT !.cached_value = cv[n]]]
    /\ solver_calls' = solver_calls + 1
    /\ pc' = "update"
    /\ UNCHANGED <<mu, al_variables, max_number_of_iterations,
                   function_improvement_tolerance, dual_change_tolerance,
                   nuExp, f_prev, iterations, dual_passes, solves>>
    /\ UNCHANGED <<fnvars, bvars>>

RECURSIVE MaxOver(_, _, _)
\* max over the constraints in S of g[n], starting from v0
MaxOver(S, g, v0) ==
    IF S = {} THEN v0
    ELSE LET n == CHOOSE m \in S : TRUE
         IN MaxOver(S \ {n}, g, VMax(v0, g[n]))

\* lines 183-191
max_violation == MaxOver(Present, [n \in Present |-> constraints[n].cached_value], VZero)

IntAbs(i) == IF i < 0 THEN 0 - i ELSE i

\* variant: the first-iteration comparison with NaN taken as true
FunctionToleranceStop_NaNTrue(fv, fp, tol) ==
    IF fp.nan THEN TRUE
    ELSE IF IntAbs(fv) + tol = 0 THEN FALSE
    ELSE 10 * IntAbs(fv - fp.v) < tol * (IntAbs(fv) + tol)

\* lines 205-206: |f - f_prev| / (|f| + tol) < tol; every comparison with a
\* NaN (f_prev on the first iteration, 0/0) is false.
FunctionToleranceStop(fv, fp, tol) ==
    IF fp.nan THEN FALSE
    ELSE IF IntAbs(fv) + tol = 0 THEN FALSE
    ELSE 10 * IntAbs(fv - fp.v) < tol * (IntAbs(fv) + tol)

\* variant: the multiplier is never clamped
UpdateLambda_NoClamp(lambda, c_x, m) == VAdd(lambda, VScale(m, c_x))

\* variant: the multiplier is clamped whenever the constraint is satisfied
UpdateLambda_ClampOnSign(lambda, c_x, m) ==
    IF VLeq(c_x, VZero) THEN VZero
    ELSE VAdd(lambda, VScale(m, c_x))

\* lines 222-227: c_x + lambda / mu <= 0, multiplied through by mu > 0
UpdateLambda(lambda, c_x, m) ==
    IF VLeq(VAdd(VScale(m, c_x), lambda), VZero) THEN VZero
    ELSE VAdd(lambda, VScale(m, c_x))

\* variant: the stop looks at the change of the multipliers only
DualToleranceStop_NoViolationTest(max_change, max_lambda, tol, viol) ==
    IF VAdd(max_lambda, V(tol, 0)) = VZero THEN FALSE
    ELSE VLess(VScale(10, max_change), VScale(tol, VAdd(max_lambda, V(tol, 0))))

\* lines 239-240
DualToleranceStop(max_change, max_lambda, tol, viol) ==
    /\ IF VAdd(max_lambda, V(tol, 0)) = VZero THEN FALSE
       ELSE VLess(VScale(10, max_change), VScale(tol, VAdd(max_lambda, V(tol, 0))))
    /\ VLess(viol, ViolationTolerance)

\* variant: the cap is tested with > instead of >=
IterationCapReached_OffByOne(it, cap) == it > cap

\* line 289
IterationCapReached(it, cap) == it >= cap

\* variant: mu *= 10
IncreasePenalty_TimesTen(m) == m * 10

\* lines 257-260: mu *= 100
IncreasePenalty(m) == m * 100

\* variant: every multiplier is updated with the largest violation
DualUpdate_WithMaxViolation(cs, m) ==
    [n \in Names |->
        IF cs[n] = NoConstraint THEN NoConstraint
        ELSE [cs[n] EXCEPT !.lambda = UpdateLambda(cs[n].lambda, max_violation, m)]]

\* lines 217-230: the dual update of every constraint
DualUpdate(cs, m) ==
    [n \in Names |->
        IF cs[n] = NoConstraint THEN NoConstraint
        ELSE [cs[n] EXCEPT !.lambda = UpdateLambda(cs[n].lambda, cs[n].cached_value, m)]]

\* lines 228-229
MaxChange(old, new) ==
    MaxOver(Present, [n \in Present |-> VAbs(VSub(old[n].lambda, new[n].lambda))], VZero)
MaxLambda(new) ==
    MaxOver(Present, [n \in Present |-> VAbs(new[n].lambda)], VZero)

\* lines 207, 241, 290: what a break writes to results->exit_condition
ExitOnFunctionTolerance(inner) == "FUNCTION_TOLERANCE"
ExitOnDualTolerance(inner) == "GRADIENT_TOLERANCE"
\* variant: the cap break leaves the field as the inner solver wrote it
ExitOnCap_NotWritten(inner) == inner
ExitOnCap(inner) == "NO_CONVERGENCE"

\* a break out of the loop; the locals nu, f and f_prev die with the call
Return(e) ==
    /\ exit_condition' = e
    /\ pc' = "returned"
    /\ nuExp' = 0
    /\ f_prev' = NaN
    /\ f' = 0

\* lines 288-295
EndOfIteration(newNu) ==
    /\ iterations' = iterations + 1
    /\ IF IterationCapReached(iterations + 1, max_number_of_iterations)
       THEN Return(ExitOnCap(exit_condition))
       ELSE /\ f_prev' = Num(f)
            /\ nuExp' = newNu
            /\ pc' = "call"
            /\ UNCHANGED <<f, exit_condition>>

\* variant: the dual or penalty update of lines 211-261 is made before the
\* function-tolerance test
OuterStep_UpdateFirst ==
    /\ pc = "update"
    /\ IF LeqNu(max_violation, nuExp)
       THEN /\ constraints' = DualUpdate(constraints, mu)
            /\ dual_passes' = dual_passes + 1
            /\ UNCHANGED mu
       ELSE /\ mu' = IncreasePenalty(mu)
            /\ UNCHANGED <<constraints, dual_passes>>
    /\ IF FunctionToleranceStop(f, f_prev, function_improvement_tolerance)
       THEN /\ Return(ExitOnFunctionTolerance(exit_condition))
            /\ UNCHANGED iterations
       ELSE IF /\ LeqNu(max_violation, nuExp)
               /\ DualToleranceStop(MaxChange(constraints, DualUpdate(constraints, mu)),
                                    MaxLambda(DualUpdate(constraints, mu)),
                                    dual_change_tolerance, max_violation)
       THEN /\ Return(ExitOnDualTolerance(exit_condition))
            /\ UNCHANGED iterations
       ELSE EndOfIteration(IF LeqNu(max_violation, nuExp)
                           THEN nuExp + 9 * Log10(mu)
                           ELSE Log10(IncreasePenalty(mu)))
    /\ UNCHANGED <<al_variables, max_number_of_iterations,
                   function_improvement_tolerance, dual_change_tolerance,
                   solver_calls, solves>>
    /\ UNCHANGED <<fnvars, bvars>>

\* solve, lines 205-296: the rest of one outer iteration
OuterStep ==
    /\ pc = "update"
    /\ IF FunctionToleranceStop(f, f_prev, function_improvement_tolerance)
       THEN /\ Return(ExitOnFunctionTolerance(exit_condition))
            /\ UNCHANGED <<mu, constraints, iterations, dual_passes>>
       ELSE IF LeqNu(max_violation, nuExp)
       THEN \E newc \in {DualUpdate(constraints, mu)} :
               /\ constraints' = newc
               /\ dual_passes' = dual_passes + 1
               /\ UNCHANGED mu
               /\ IF DualToleranceStop(MaxChange(constraints, newc), MaxLambda(newc),
                                       dual_change_tolerance, max_violation)
                  THEN /\ Return(ExitOnDualTolerance(exit_condition))
                       /\ UNCHANGED iterations
                  ELSE EndOfIteration(nuExp + 9 * Log10(mu))          \* line 246
       ELSE /\ mu' = IncreasePenalty(mu)
            /\ UNCHANGED <<constraints, dual_passes>>
            /\ EndOfIteration(Log10(IncreasePenalty(mu)))             \* line 260
    /\ UNCHANGED <<al_variables, max_number_of_iterations,
                   function_improvement_tolerance, dual_change_tolerance,
                   solver_calls, solves>>
    /\ UNCHANGED <<fnvars, bvars>>

NextCF ==
    \/ SolveBegin
    \/ SolverCall
    \/ OuterStep

SpecConstrained == InitCF /\ [][NextCF]_vars

\* ---------------------------------------------------------------- Function
\* ------------------------------------------------------------- the inputs
Ids == {"p", "q"}                   \* identities (double*) of user variables
Dimensions == {1, 2}                \* the dimension argument of add_variable
\* concrete ChangeOfVariables: "Line" maps t to x = (t, 2t)
Covs == {"Line"}
NULL == "NULL"
\* concrete Terms
TermKinds == {"Sq", "Dot", "Neg"}
\* argument lists passed to add_term
ArgumentLists == {<<a>> : a \in Ids} \cup {<<a, b>> : a, b \in Ids}
NoVariable == [absent |-> TRUE]
NoError == ""
\* the Hessian argument of an evaluate call
HessianKinds == {"none", "dense", "sparse"}
\* no create_sparse_hessian since the variables and terms last changed
NoPattern == [written |-> FALSE, triplets |-> <<>>]

x_dimension(cov) == 2
t_dimension(cov) == 1
\* ChangeOfVariables::t_to_x
t_to_x(cov, t) == <<t[1], 2 * t[1]>>
\* ChangeOfVariables::update_gradient: adds the pull-back of g_user
update_gradient(cov, g_solver, g_user) == <<g_solver[1] + g_user[1] + 2 * g_user[2]>>

\* Term::number_of_variables and Term::variable_dimension
number_of_variables(k) == IF k = "Dot" THEN 2 ELSE 1
variable_dimension(k, var) ==
    IF k = "Sq" THEN 1
    ELSE IF k = "Neg" THEN 2
    ELSE IF var = 1 THEN 1 ELSE 2
\* Term::evaluate on the argument values a (a sequence of vectors): the
\* message of the exception it throws, or NoError
TermError(k, a) ==
    IF k = "Sq" /\ a[1][1] = 2 THEN "Sq: bad argument"
    ELSE IF k = "Neg" /\ a[1][1] = 2 THEN "Neg: bad argument"
    ELSE NoError
TermValue(k, a) ==
    IF k = "Sq" THEN a[1][1] * a[1][1]
    ELSE IF k = "Neg" THEN 0 - (a[1][1] + 3 * a[1][2])
    ELSE a[1][1] * (a[2][1] + 2 * a[2][2])
TermGradient(k, a) ==
    IF k = "Sq" THEN << <<2 * a[1][1]>> >>
    ELSE IF k = "Neg" THEN << <<0 - 1, 0 - 3>> >>
    ELSE << <<a[2][1] + 2 * a[2][2]>>, <<a[1][1], 2 * a[1][1]>> >>

\* Term::evaluate with a Hessian: hessian[var0][var1] is the block of second
\* derivatives, a matrix given by its rows
TermHessian(k, a) ==
    IF k = "Sq" THEN << << << <<2>> >> >> >>
    ELSE IF k = "Neg" THEN << << << <<0, 0>>, <<0, 0>> >> >> >>
    ELSE << << << <<0>> >>,          << <<1, 2>> >> >>,
            << << <<1>>, <<2>> >>,   << <<0, 0>>, <<0, 0>> >> >> >>

\* the solver-space vectors evaluate is called with
XVectors(n) == {[i \in 1..n |-> 1], [i \in 1..n |-> 2], [i \in 1..n |-> 1 + (i % 2)]}

Registered == {id \in Ids : variables[id] # NoVariable}

\* the state a Function is left in between calls
EvaluateIdle ==
    /\ epc' = "idle"
    /\ with_gradient' = FALSE
    /\ x' = <<>>
    /\ assignment' = <<>>
    /\ done' = {}
    /\ thread_value' = <<>>
    /\ thread_gradient_storage' = <<>>
    /\ evaluation_errors' = <<>>
    /\ value' = 0
    /\ gradient' = <<>>
    /\ hessian_kind' = "none"
    /\ term_hessian' = <<>>
    /\ hessian' = <<>>

\* Function::Function, lines 11-35
FunctionConstructed ==
    /\ variables = [id \in Ids |-> NoVariable]
    /\ order = <<>>
    /\ number_of_scalars = 0
    /\ terms = <<>>
    /\ local_storage_allocated = FALSE
    /\ local_storage = NoStorage
    /\ thrown = NoError
    /\ epc = "idle"
    /\ with_gradient = FALSE
    /\ x = <<>>
    /\ assignment = <<>>
    /\ done = {}
    /\ thread_value = <<>>
    /\ thread_gradient_storage = <<>>
    /\ evaluation_errors = <<>>
    /\ value = 0
    /\ gradient = <<>>
    /\ hessian_kind = "none"
    /\ term_hessian = <<>>
    /\ hessian = <<>>
    /\ pattern = NoPattern

Init ==
    /\ FunctionConstructed
    /\ use_openmp \in BOOLEAN
    /\ number_of_threads \in (IF use_openmp THEN 1..MaxThreads ELSE {1})
    /\ NoConstrainedFunction
    /\ NoStructure

\* a call can be made when no evaluate is running
Callable == epc \in {"idle", "returned", "raised"}

\* what std::map::operator[] inserts: a value-initialised AddedVariable
DefaultVariable ==
    [user_dimension |-> 0, solver_dimension |-> 0, global_index |-> 0,
     change_of_variables |-> NULL, temp_space |-> 0]

\* lines 66-89: the descriptor of a new identity, and whether the call throws
\* after inserting it
NewVariable(dimension, cov, scalars) ==
    IF cov # NULL /\ dimension # x_dimension(cov)
    THEN [DefaultVariable EXCEPT !.change_of_variables = cov]
    ELSE [user_dimension |-> IF cov # NULL THEN x_dimension(cov) ELSE dimension,
          solver_dimension |-> IF cov # NULL THEN t_dimension(cov) ELSE dimension,
          global_index |-> scalars,
          change_of_variables |-> cov,
          temp_space |-> IF cov # NULL THEN x_dimension(cov) ELSE dimension]

\* variant: an identity added again with its dimension is not returned at
\* line 64 but registered anew
add_variable_NoEarlyReturn(variable, dimension, cov) ==
    /\ Callable
    /\ EvaluateIdle
    /\ local_storage_allocated' = FALSE
    /\ UNCHANGED local_storage
    /\ IF variables[variable] # NoVariable /\ variables[variable].user_dimension # dimension
       THEN /\ thrown' = "Function::add_variable: dimension mismatch."
            /\ UNCHANGED <<variables, order, number_of_scalars>>
       ELSE /\ variables' = [variables EXCEPT ![variable] =
                                NewVariable(dimension, cov, number_of_scalars)]
            /\ order' = IF variables[variable] # NoVariable THEN order
                        ELSE Append(order, variable)
            /\ IF cov # NULL /\ dimension # x_dimension(cov)
               THEN /\ thrown' = "Function::add_variable: dimension does not match the change of variables."
                    /\ UNCHANGED number_of_scalars
               ELSE /\ thrown' = NoError
                    /\ number_of_scalars' = number_of_scalars
                            + variables'[variable].solver_dimension
    /\ pattern' = NoPattern
    /\ UNCHANGED <<terms, number_of_threads, use_openmp>>
    /\ UNCHANGED <<cfvars, bvars>>

\* Function::add_variable_internal, lines 53-90
add_variable(variable, dimension, cov) ==
    /\ Callable
    /\ EvaluateIdle
    /\ local_storage_allocated' = FALSE
    /\ UNCHANGED local_storage
    /\ IF variables[variable] # NoVariable
       THEN /\ thrown' = IF variables[variable].user_dimension # dimension
                         THEN "Function::add_variable: dimension mismatch."
                         ELSE NoError
            /\ UNCHANGED <<variables, order, number_of_scalars>>
       ELSE /\ variables' = [variables EXCEPT ![variable] =
                                NewVariable(dimension, cov, number_of_scalars)]
            /\ order' = Append(order, variable)
            /\ IF cov # NULL /\ dimension # x_dimension(cov)
               THEN /\ thrown' = "Function::add_variable: dimension does not match the change of variables."
                    /\ UNCHANGED number_of_scalars
               ELSE /\ thrown' = NoError
                    /\ number_of_scalars' = number_of_scalars
                            + variables'[variable].solver_dimension
    /\ pattern' = NoPattern
    /\ UNCHANGED <<terms, number_of_threads, use_openmp>>
    /\ UNCHANGED <<cfvars, bvars>>

\* variant: the dimension of the arguments is not compared with the term's
AddTermError_NoDimensionCheck(k, arguments) ==
    IF number_of_variables(k) # Len(arguments)
    THEN "Function::add_term: incorrect number of arguments."
    ELSE IF \E var \in 1..Len(arguments) : variables[arguments[var]] = NoVariable
    THEN "Function::add_term: unknown variable."
    ELSE NoError

\* lines 97-109: the message add_term throws, or NoError
AddTermError(k, arguments) ==
    IF number_of_variables(k) # Len(arguments)
    THEN "Function::add_term: incorrect number of arguments."
    ELSE IF \E var \in 1..Len(arguments) : variables[arguments[var]] = NoVariable
    THEN "Function::add_term: unknown variable."
    ELSE IF \E var \in 1..Len(arguments) :
                variables[arguments[var]].user_dimension # variable_dimension(k, var)
    THEN "Function::add_term: variable dimension does not match term."
    ELSE NoError

\* Function::add_term, lines 93-136
add_term(k, arguments) ==
    /\ Callable
    /\ EvaluateIdle
    /\ local_storage_allocated' = FALSE
    /\ UNCHANGED local_storage
    /\ thrown' = AddTermError(k, arguments)
    /\ IF AddTermError(k, arguments) # NoError
       THEN UNCHANGED terms
       ELSE /\ Len(terms) < MaxTerms
            /\ terms' = Append(terms, [term |-> k, user_variables |-> arguments])
    /\ pattern' = NoPattern
    /\ UNCHANGED <<variables, order, number_of_scalars, number_of_threads, use_openmp>>
    /\ UNCHANGED <<cfvars, bvars>>

\* Function::set_number_of_threads, lines 138-148
set_number_of_threads(num) ==
    /\ Callable
    /\ EvaluateIdle
    /\ IF ~use_openmp
       THEN /\ thrown' = NoError
            /\ UNCHANGED <<local_storage_allocated, number_of_threads>>
       ELSE IF num <= 0
       THEN /\ thrown' = "Function::set_number_of_threads: invalid number of threads."
            /\ UNCHANGED <<local_storage_allocated, number_of_threads>>
       ELSE /\ thrown' = NoError
            /\ local_storage_allocated' = FALSE
    /\ UNCHANGED local_storage
            /\ number_of_threads' = num
    /\ UNCHANGED <<variables, order, number_of_scalars, terms, use_openmp, pattern,
                   local_storage>>
    /\ UNCHANGED <<cfvars, bvars>>

\* x[from+1 .. from+n], 0-based offset as in the source
Slice(vec, from, n) == [i \in 1..n |-> vec[from + i]]

\* copy_global_to_local, lines 302-320: the temp_space of a variable
temp_space(xv, id) ==
    IF variables[id].change_of_variables = NULL
    THEN Slice(xv, variables[id].global_index, variables[id].user_dimension)
    ELSE t_to_x(variables[id].change_of_variables,
                Slice(xv, variables[id].global_index, variables[id].solver_dimension))

\* lines 313-315 on a descriptor whose temp_space was never resized (the
\* call that inserted it threw): t_to_x writes through &temp_space[0] of an
\* empty vector.
CopyWritesOutOfBounds ==
    \E id \in Registered :
        /\ variables[id].change_of_variables # NULL
        /\ variables[id].temp_space < x_dimension(variables[id].change_of_variables)

\* temp_variables of a term: the argument views passed to Term::evaluate
TermArguments(xv, rec) ==
    [var \in 1..Len(rec.user_variables) |-> temp_space(xv, rec.user_variables[var])]

Zeros(n) == [i \in 1..n |-> 0]

\* evaluate, lines 382-407 and 534-570 (with a gradient), 253-260 and
\* 200-213 (without): storage is allocated if needed, x is copied to the
\* temp spaces, the per-thread gradients are zeroed and the OpenMP runtime
\* hands the term indices out to the threads.  hessian_is_enabled is set by
\* the constructor (line 16) and by nothing else, so the tests of lines 388
\* and 544 never fire.
\* the largest element of a non-empty set of numbers
MaxOf(S) == CHOOSE n \in S : \A m \in S : m <= n

\* lines 152-160
max_variable_dimension ==
    MaxOf({1} \cup {variables[id].user_dimension :
                       id \in {v \in Ids : variables[v] # NoVariable}})
max_arity ==
    MaxOf({1} \cup {Len(terms[i].user_variables) : i \in 1..Len(terms)})

\* allocate_local_storage, lines 150-173: the sizes it gives the vectors;
\* resized tells that vectors of an earlier allocation changed their size
allocate_local_storage ==
    [threads |-> number_of_threads,
     scalars |-> number_of_scalars,
     arity |-> max_arity,
     dimension |-> max_variable_dimension,
     resized |-> /\ local_storage.threads > 0
                 /\ \/ local_storage.threads # number_of_threads
                    \/ local_storage.scalars # number_of_scalars
                    \/ local_storage.arity # max_arity
                    \/ local_storage.dimension # max_variable_dimension]

\* variant: the storage is allocated by the first evaluate only
StorageAtEvaluate_AllocatedOnce ==
    IF local_storage.threads > 0 THEN local_storage ELSE allocate_local_storage

\* lines 392-394: the storage the term loop works with
StorageAtEvaluate ==
    IF local_storage_allocated THEN local_storage ELSE allocate_local_storage

EvaluateBegin(xv, grad, hess, asg) ==
    /\ Callable
    /\ hess # "none" => grad
    /\ thrown' = NoError
    /\ with_gradient' = grad
    /\ hessian_kind' = hess
    /\ term_hessian' = [i \in 1..Len(terms) |-> <<>>]
    /\ hessian' = <<>>
    /\ x' = xv
    /\ local_storage_allocated' = (grad \/ local_storage_allocated)
    /\ local_storage' = IF grad THEN StorageAtEvaluate ELSE local_storage
    /\ value' = 0
    /\ gradient' = <<>>
    /\ IF \/ CopyWritesOutOfBounds
          \* lines 396-398 on a vector with fewer than number_of_threads entries
          \/ (grad /\ StorageAtEvaluate.threads < number_of_threads)
       THEN /\ epc' = "crashed"
            /\ assignment' = <<>>
            /\ done' = {}
            /\ thread_value' = <<>>
            /\ thread_gradient_storage' = <<>>
            /\ evaluation_errors' = <<>>
       ELSE /\ epc' = "terms"
            /\ assignment' = asg
            /\ done' = {}
            /\ thread_value' = [t \in 1..number_of_threads |-> 0]
            /\ thread_gradient_storage' =
                  IF grad
                  THEN [t \in 1..number_of_threads |-> Zeros(StorageAtEvaluate.scalars)]
                  ELSE <<>>
            /\ evaluation_errors' =
                  IF use_openmp THEN [t \in 1..number_of_threads |-> NoError]
                  ELSE <<>>
    /\ UNCHANGED <<variables, order, number_of_scalars, terms, number_of_threads,
                   use_openmp, pattern>>
    /\ UNCHANGED <<cfvars, bvars>>

\* lines 449-452: storage[global_offset + i] += scratch[var][i]
AddDirect(storage, offset, g, n) ==
    [i \in 1..Len(storage) |->
        IF i > offset /\ i <= offset + n THEN storage[i] + g[i - offset]
        ELSE storage[i]]

\* lines 456-460: update_gradient(&storage[global_offset], ..., scratch[var])
AddPulledBack(storage, offset, cov, g) ==
    LET sub == update_gradient(cov, Slice(storage, offset, t_dimension(cov)), g)
    IN [i \in 1..Len(storage) |->
          IF i > offset /\ i <= offset + t_dimension(cov) THEN sub[i - offset]
          ELSE storage[i]]

\* lines 446-461: one argument of a term
ScatterArgument(storage, v, g) ==
    IF v.change_of_variables = NULL
    THEN AddDirect(storage, v.global_index, g, v.user_dimension)
    ELSE AddPulledBack(storage, v.global_index, v.change_of_variables, g)

RECURSIVE ScatterTerm(_, _, _, _)
\* lines 443-462: the arguments var, var+1, ... of a term
ScatterTerm(storage, rec, grads, var) ==
    IF var > Len(rec.user_variables) THEN storage
    ELSE ScatterTerm(ScatterArgument(storage, variables[rec.user_variables[var]], grads[var]),
                     rec, grads, var + 1)

\* lines 600-602: the sparse path rejects an argument with a change of
\* variables inside the term loop
SparseScatterError(rec) ==
    IF \E var \in 1..Len(rec.user_variables) :
            variables[rec.user_variables[var]].change_of_variables # NULL
    THEN "Change of variables not supported for sparse Hessian"
    ELSE NoError

RECURSIVE ScatterTermSparse(_, _, _, _)
\* lines 597-609: the arguments var, var+1, ... of a term, up to the first
\* one with a change of variables
ScatterTermSparse(storage, rec, grads, var) ==
    IF var > Len(rec.user_variables) THEN storage
    ELSE IF variables[rec.user_variables[var]].change_of_variables # NULL THEN storage
    ELSE ScatterTermSparse(
            AddDirect(storage, variables[rec.user_variables[var]].global_index,
                      grads[var], variables[rec.user_variables[var]].user_dimension),
            rec, grads, var + 1)

\* what the loop body of a term throws: the Term's own exception, or the
\* sparse path's rejection of a change of variables
BodyError(kind, rec, a) ==
    IF TermError(rec.term, a) # NoError THEN TermError(rec.term, a)
    ELSE IF kind = "sparse" THEN SparseScatterError(rec)
    ELSE NoError

\* the term a thread runs next: its lowest index not yet run
NextTerm(t) ==
    {i \in 1..Len(terms) :
        /\ assignment[i] = t
        /\ i \notin done
        /\ \A j \in 1..(i - 1) : assignment[j] = t => j \in done}

\* lines 230-235, 468-473 and 615-620: what the catch clause stores, and where
RecordError(errors, t, msg) == [errors EXCEPT ![t] = msg]

\* one iteration of the term loop (lines 214-237, 417-475, 579-622), run by
\* thread t
RunTerm(t) ==
    /\ epc = "terms"
    /\ \E i \in NextTerm(t) :
        LET rec == terms[i]
            a == TermArguments(x, rec)
            err == BodyError(hessian_kind, rec, a)
            evaluated == TermError(rec.term, a) = NoError
        IN /\ done' = done \cup {i}
           /\ thread_value' = IF evaluated
                              THEN [thread_value EXCEPT ![t] = @ + TermValue(rec.term, a)]
                              ELSE thread_value
           /\ term_hessian' = IF evaluated /\ hessian_kind # "none"
                              THEN [term_hessian EXCEPT ![i] = TermHessian(rec.term, a)]
                              ELSE term_hessian
           /\ thread_gradient_storage' =
                IF evaluated /\ with_gradient
                THEN [thread_gradient_storage EXCEPT ![t] =
                        IF hessian_kind = "sparse"
                        THEN ScatterTermSparse(@, rec, TermGradient(rec.term, a), 1)
                        ELSE ScatterTerm(@, rec, TermGradient(rec.term, a), 1)]
                ELSE thread_gradient_storage
           /\ IF err # NoError
              THEN IF use_openmp
                   THEN /\ evaluation_errors' = RecordError(evaluation_errors, t, err)
                        /\ UNCHANGED <<epc, thrown>>
                   ELSE \* no try block in this build: the exception leaves evaluate
                        /\ epc' = "raised"
                        /\ thrown' = err
                        /\ UNCHANGED evaluation_errors
              ELSE UNCHANGED <<epc, thrown, evaluation_errors>>
    /\ UNCHANGED <<variables, order, number_of_scalars, terms, number_of_threads,
                   local_storage_allocated, local_storage, use_openmp, with_gradient, x,
                   assignment, value, gradient, hessian_kind, hessian, pattern>>
    /\ UNCHANGED <<cfvars, bvars>>

RECURSIVE FirstError_Last(_, _)
\* variant: the slots are searched from the last one down
FirstError_Last(errors, t) ==
    IF t > Len(errors) THEN NoError
    ELSE IF FirstError_Last(errors, t + 1) # NoError THEN FirstError_Last(errors, t + 1)
    ELSE errors[t]

RECURSIVE FirstError(_, _)
\* lines 242-246 and 480-484: the first non-empty slot, from slot t on
FirstError(errors, t) ==
    IF t > Len(errors) THEN NoError
    ELSE IF errors[t] # NoError THEN errors[t]
    ELSE FirstError(errors, t + 1)

RECURSIVE SumValues(_, _)
\* reduction(+ : value): the private copies of threads 1..t
SumValues(vals, t) == IF t = 0 THEN 0 ELSE vals[t] + SumValues(vals, t - 1)

\* variant: only the first thread's gradient reaches the output
SumGradients_FirstThread(storage, n, t) == storage[1]

RECURSIVE SumGradients(_, _, _)
\* lines 494-498: (*gradient) += thread_gradient_storage[t], threads 1..t
SumGradients(storage, n, t) ==
    IF t = 0 THEN Zeros(n)
    ELSE LET rest == SumGradients(storage, n, t - 1)
         IN [i \in 1..n |-> rest[i] + storage[t][i]]

ZeroMatrix(n) == [r \in 1..n |-> [c \in 1..n |-> 0]]

\* variant: a block overwrites what earlier terms added
AddBlock_Assign(H, offset0, offset1, block, n0, n1) ==
    [r \in 1..Len(H) |-> [c \in 1..Len(H) |->
        IF r > offset0 /\ r <= offset0 + n0 /\ c > offset1 /\ c <= offset1 + n1
        THEN block[r - offset0][c - offset1]
        ELSE H[r][c]]]

\* lines 519-524: hessian(i + global_offset0, j + global_offset1) +=
\* part_hessian(i, j) for i < n0, j < n1; a write outside the matrix is
\* left out here and accounted for by DenseWritesOutOfBounds
AddBlock(H, offset0, offset1, block, n0, n1) ==
    [r \in 1..Len(H) |-> [c \in 1..Len(H) |->
        IF r > offset0 /\ r <= offset0 + n0 /\ c > offset1 /\ c <= offset1 + n1
        THEN H[r][c] + block[r - offset0][c - offset1]
        ELSE H[r][c]]]

RECURSIVE AddBlocks(_, _, _, _, _)
\* lines 516-525: the blocks (var0, var1), (var0, var1 + 1), ... of a term
AddBlocks(H, rec, blocks, var0, var1) ==
    IF var1 > number_of_variables(rec.term) THEN H
    ELSE AddBlocks(AddBlock(H, variables[rec.user_variables[var0]].global_index,
                            variables[rec.user_variables[var1]].global_index,
                            blocks[var0][var1],
                            variable_dimension(rec.term, var0),
                            variable_dimension(rec.term, var1)),
                   rec, blocks, var0, var1 + 1)

\* variant: an argument with a change of variables is skipped, not rejected
DenseScatterError_Skip(v) == NoError

\* lines 511-513
DenseScatterError(v) ==
    IF v.change_of_variables # NULL
    THEN "Change of variables not supported for Hessians"
    ELSE NoError

RECURSIVE DenseScatter(_, _, _)
\* lines 507-527, from argument var0 of term i on: the matrix written and
\* the message of the exception that ended the loop, or NoError
DenseScatter(H, i, var0) ==
    IF i > Len(terms) THEN [hessian |-> H, thrown |-> NoError]
    ELSE IF var0 > number_of_variables(terms[i].term) THEN DenseScatter(H, i + 1, 1)
    ELSE IF DenseScatterError(variables[terms[i].user_variables[var0]]) # NoError
    THEN [hessian |-> H,
          thrown |-> DenseScatterError(variables[terms[i].user_variables[var0]])]
    ELSE DenseScatter(AddBlocks(H, terms[i], term_hessian[i], var0, 1), i, var0 + 1)

\* whether the loop of lines 507-527 reaches argument var0 of term i
DenseScatterReaches(i, var0) ==
    \A j \in 1..i : \A v \in 1..number_of_variables(terms[j].term) :
        (j < i \/ v <= var0) =>
            DenseScatterError(variables[terms[j].user_variables[v]]) = NoError

\* lines 516-524 with a second argument that has a change of variables: the
\* block has variable_dimension columns, the variable solver_dimension
\* scalars, and coeffRef is given a column past the end of the matrix
DenseWritesOutOfBounds ==
    \E i \in 1..Len(terms) : \E var0, var1 \in 1..number_of_variables(terms[i].term) :
        /\ DenseScatterReaches(i, var0)
        /\ variables[terms[i].user_variables[var1]].global_index
                + variable_dimension(terms[i].term, var1) > number_of_scalars

RECURSIVE Flatten(_, _)
\* F[1] \o ... \o F[n]
Flatten(F, n) == IF n = 0 THEN <<>> ELSE Flatten(F, n - 1) \o F[n]

\* lines 655-669: the triplets (row, column, value) of block (var0, var1) of
\* a term, 0-based as in the source
TripletsOfBlock(rec, blocks, var0, var1) ==
    [k \in 1..(variable_dimension(rec.term, var0) * variable_dimension(rec.term, var1)) |->
        <<((k - 1) \div variable_dimension(rec.term, var1))
                + variables[rec.user_variables[var0]].global_index,
          ((k - 1) % variable_dimension(rec.term, var1))
                + variables[rec.user_variables[var1]].global_index,
          blocks[var0][var1][((k - 1) \div variable_dimension(rec.term, var1)) + 1]
                            [((k - 1) % variable_dimension(rec.term, var1)) + 1]>>]

\* lines 650-671
TripletsOfTerm(rec, blocks) ==
    Flatten([var0 \in 1..number_of_variables(rec.term) |->
                Flatten([var1 \in 1..number_of_variables(rec.term) |->
                            TripletsOfBlock(rec, blocks, var0, var1)],
                        number_of_variables(rec.term))],
            number_of_variables(rec.term))

\* lines 648-672: indices after the loop over the terms
HessianTriplets ==
    Flatten([i \in 1..Len(terms) |-> TripletsOfTerm(terms[i], term_hessian[i])], Len(terms))

\* the end of the parallel loop and what follows it: lines 239-251, 477-532
\* and 624-680
EvaluateJoin ==
    /\ epc = "terms"
    /\ done = 1..Len(terms)
    /\ IF use_openmp /\ FirstError(evaluation_errors, 1) # NoError
       THEN /\ epc' = "raised"
            /\ thrown' = FirstError(evaluation_errors, 1)
            /\ UNCHANGED <<value, gradient, hessian>>
       ELSE /\ gradient' = IF with_gradient
                           THEN SumGradients(thread_gradient_storage,
                                             number_of_scalars, number_of_threads)
                           ELSE <<>>
            /\ IF hessian_kind = "dense"
                  /\ DenseScatter(ZeroMatrix(number_of_scalars), 1, 1).thrown # NoError
               THEN \* the scatter loop throws: gradient and part of the
                    \* matrix are written, nothing is returned; an
                    \* out-of-range coeffRef before the throw is undefined
                    /\ \E outcome \in (IF DenseWritesOutOfBounds
                                        THEN {"raised", "crashed"} ELSE {"raised"}) :
                          /\ epc' = outcome
                          /\ thrown' =
                               IF outcome = "raised"
                               THEN DenseScatter(ZeroMatrix(number_of_scalars), 1, 1).thrown
                               ELSE NoError
                    /\ hessian' = DenseScatter(ZeroMatrix(number_of_scalars), 1, 1).hessian
                    /\ UNCHANGED value
               ELSE /\ epc' = "returned"
                    /\ value' = SumValues(thread_value, number_of_threads)
                    /\ hessian' =
                         IF hessian_kind = "dense"
                         THEN DenseScatter(ZeroMatrix(number_of_scalars), 1, 1).hessian
                         ELSE IF hessian_kind = "sparse" THEN HessianTriplets
                         ELSE <<>>
                    /\ UNCHANGED thrown
    /\ UNCHANGED <<variables, order, number_of_scalars, terms, number_of_threads,
                   local_storage_allocated, local_storage, use_openmp, with_gradient, x,
                   assignment, done, thread_value, thread_gradient_storage,
                   evaluation_errors, hessian_kind, term_hessian, pattern>>
    /\ UNCHANGED <<cfvars, bvars>>

\* variant: only the blocks on and above the diagonal are listed
PatternOfBlock_Upper(rec, var0, var1) ==
    IF var0 > var1 THEN <<>>
    ELSE [k \in 1..(variable_dimension(rec.term, var0) * variable_dimension(rec.term, var1)) |->
            <<((k - 1) \div variable_dimension(rec.term, var1))
                    + variables[rec.user_variables[var0]].global_index,
              ((k - 1) % variable_dimension(rec.term, var1))
                    + variables[rec.user_variables[var1]].global_index,
              1>>]

\* lines 283-292: the triplets (row, column, 1.0) of block (var0, var1)
PatternOfBlock(rec, var0, var1) ==
    [k \in 1..(variable_dimension(rec.term, var0) * variable_dimension(rec.term, var1)) |->
        <<((k - 1) \div variable_dimension(rec.term, var1))
                + variables[rec.user_variables[var0]].global_index,
          ((k - 1) % variable_dimension(rec.term, var1))
                + variables[rec.user_variables[var1]].global_index,
          1>>]

\* lines 279-294
PatternOfTerm(rec) ==
    Flatten([var0 \in 1..number_of_variables(rec.term) |->
                Flatten([var1 \in 1..number_of_variables(rec.term) |->
                            PatternOfBlock(rec, var0, var1)],
                        number_of_variables(rec.term))],
            number_of_variables(rec.term))

\* Function::create_sparse_hessian, lines 271-300
create_sparse_hessian ==
    /\ Callable
    /\ EvaluateIdle
    /\ thrown' = NoError
    /\ pattern' = [written |-> TRUE,
                   triplets |-> Flatten([i \in 1..Len(terms) |-> PatternOfTerm(terms[i])],
                                        Len(terms))]
    /\ UNCHANGED <<variables, order, number_of_scalars, terms, number_of_threads,
                   local_storage_allocated, local_storage, use_openmp>>
    /\ UNCHANGED <<cfvars, bvars>>

\* a Function evaluated for its value and its gradient
Next ==
    \/ \E variable \in Ids, dimension \in Dimensions, cov \in Covs \cup {NULL} :
            add_variable(variable, dimension, cov)
    \/ \E k \in TermKinds, arguments \in ArgumentLists : add_term(k, arguments)
    \/ \E num \in 0..MaxThreads : set_number_of_threads(num)
    \/ \E xv \in XVectors(number_of_scalars), grad \in BOOLEAN,
          asg \in [1..Len(terms) -> 1..number_of_threads] :
            EvaluateBegin(xv, grad, "none", asg)
    \/ \E t \in 1..number_of_threads : RunTerm(t)
    \/ EvaluateJoin

Spec == Init /\ [][Next]_vars

\* a Function evaluated with every kind of Hessian argument; the number of
\* threads is the one the constructor took from the OpenMP runtime
NextHessian ==
    \/ \E variable \in Ids, dimension \in Dimensions, cov \in Covs \cup {NULL} :
            add_variable(variable, dimension, cov)
    \/ \E k \in TermKinds, arguments \in ArgumentLists : add_term(k, arguments)
    \/ create_sparse_hessian
    \/ \E xv \in XVectors(number_of_scalars), hess \in HessianKinds,
          asg \in [1..Len(terms) -> 1..number_of_threads] :
            EvaluateBegin(xv, TRUE, hess, asg)
    \/ \E t \in 1..number_of_threads : RunTerm(t)
    \/ EvaluateJoin

SpecHessian == Init /\ [][NextHessian]_vars

\* ------------------------------------- the structure of ConstrainedFunction
\* What Function::add_term of a component Function (objective, a constraint,
\* augmented_lagrangian) may answer to a term and its arguments: accepted,
\* or one of the exceptions of lines 97-109 of function.cpp.
AddTermOutcomes == {NoError, "Function::add_term: unknown variable."}

\* c(x) at the user state when is_feasible is called:
\* -0.1, 1e-12, 1.1e-12 and 1e-10
FeasibilityValues == {V(-1, 0), V(0, 10), V(0, 11), V(0, 1000)}

\* a term of augmented_lagrangian: an objective term, or the Phi of a
\* constraint, which holds &constraint.lambda and &impl->mu
ObjectiveTerm == [phi |-> FALSE, constraint |-> ""]
PhiTerm(name) == [phi |-> TRUE, constraint |-> name]

\* check(), used at line 131: throws the message unless the condition
\* holds
check(condition, message) == IF condition THEN NoError ELSE message

\* a ConstrainedFunction after construction (lines 111-118): no constraint,
\* no term, mu uninitialised; one iteration and tolerances of 0.1 are the
\* values the caller has written to the public fields
Constructed ==
    /\ mu \in UninitMu
    /\ constraints = [n \in Names |-> NoConstraint]
    /\ al_variables \in 0..MaxCFVars
    /\ max_number_of_iterations = 1
    /\ function_improvement_tolerance = 1
    /\ dual_change_tolerance = 1
    /\ exit_condition = "NA"
    /\ pc = "idle"
    /\ nuExp = 0
    /\ f = 0
    /\ f_prev = NaN
    /\ iterations = 0
    /\ solver_calls = 0
    /\ dual_passes = 0
    /\ solves = 0

\* ConstrainedFunction::add_term, lines 120-125
CF_add_term(objective_outcome, al_outcome) ==
    /\ Quiescent
    /\ objective_terms < MaxObjective
    /\ feasibility' = NoCall
    /\ IF objective_outcome # NoError
       THEN /\ cthrown' = objective_outcome
            /\ UNCHANGED <<objective_terms, al_terms>>
       ELSE /\ objective_terms' = objective_terms + 1
            /\ cthrown' = al_outcome
            /\ al_terms' = IF al_outcome # NoError THEN al_terms
                           ELSE Append(al_terms, ObjectiveTerm)
    /\ UNCHANGED <<cfvars, fnvars, phi_call>>

\* ConstrainedFunction::add_constraint_term without the check of line 131:
\* operator[] finds the constraint and a second term and Phi are added
add_constraint_term_NoCheck(constraint_name, constraint_outcome, al_outcome) ==
    /\ Quiescent
    /\ feasibility' = NoCall
    /\ LET old == IF constraints[constraint_name] = NoConstraint
                  THEN NewConstraint(0) ELSE constraints[constraint_name]
       IN  IF constraint_outcome # NoError
           THEN /\ constraints' = [constraints EXCEPT ![constraint_name] = old]
                /\ cthrown' = constraint_outcome
                /\ UNCHANGED al_terms
           ELSE /\ old.nterms < MaxTerms
                /\ constraints' = [constraints EXCEPT ![constraint_name] =
                                      [old EXCEPT !.nterms = @ + 1]]
                /\ cthrown' = al_outcome
                /\ al_terms' = IF al_outcome # NoError THEN al_terms
                               ELSE Append(al_terms, PhiTerm(constraint_name))
    /\ UNCHANGED <<mu, al_variables, max_number_of_iterations,
                   function_improvement_tolerance, dual_change_tolerance,
                   exit_condition, pc, nuExp, f, f_prev, iterations,
                   solver_calls, dual_passes, solves>>
    /\ UNCHANGED <<fnvars, objective_terms, phi_call>>

\* ConstrainedFunction::add_constraint_term, lines 127-139
add_constraint_term(constraint_name, constraint_outcome, al_outcome) ==
    /\ Quiescent
    /\ feasibility' = NoCall
    /\ IF check(constraints[constraint_name] = NoConstraint,
                "add_constraint_term: Term already added.") # NoError
       THEN \* line 131 throws before anything is written
            /\ cthrown' = check(constraints[constraint_name] = NoConstraint,
                                "add_constraint_term: Term already added.")
            /\ UNCHANGED <<constraints, al_terms>>
       ELSE IF constraint_outcome # NoError
       THEN \* line 133 has inserted the constraint, line 135 throws
            /\ constraints' = [constraints EXCEPT ![constraint_name] =
                                  NewConstraint(0)]
            /\ cthrown' = constraint_outcome
            /\ UNCHANGED al_terms
       ELSE \* lines 133-138
            /\ constraints' = [constraints EXCEPT ![constraint_name] =
                                  NewConstraint(1)]
            /\ cthrown' = al_outcome
            /\ al_terms' = IF al_outcome # NoError THEN al_terms
                           ELSE Append(al_terms, PhiTerm(constraint_name))
    /\ UNCHANGED <<mu, al_variables, max_number_of_iterations,
                   function_improvement_tolerance, dual_change_tolerance,
                   exit_condition, pc, nuExp, f, f_prev, iterations,
                   solver_calls, dual_passes, solves>>
    /\ UNCHANGED <<fnvars, objective_terms, phi_call>>

\* the values Function::evaluate() of the constraints may return at the
\* current user state; an empty Function evaluates to 0
UserStateValues ==
    {cv \in [Names -> FeasibilityValues \cup {VZero}] :
        \A n \in Names :
            IF constraints[n] = NoConstraint \/ constraints[n].nterms = 0
            THEN cv[n] = VZero
            ELSE cv[n] \in FeasibilityValues}

\* std::less<string> on the constraint names
NameLess(n, m) == n = "a" /\ m = "b"

\* the names of a set in the order std::map iterates them
RECURSIVE InOrder(_)
InOrder(S) ==
    IF S = {} THEN <<>>
    ELSE LET first == CHOOSE n \in S : \A m \in S : ~NameLess(m, n)
         IN  <<first>> \o InOrder(S \ {first})

RECURSIVE FeasibleLoop(_, _)
\* the loop of is_feasible that returns after the first constraint
FeasibleLoop_FirstOnly(names, c_x) ==
    IF names = <<>> THEN TRUE
    ELSE ~VLess(FeasibilityTolerance, c_x[Head(names)])

\* the loop of is_feasible, lines 148-154
FeasibleLoop(names, c_x) ==
    IF names = <<>> THEN TRUE
    ELSE IF VLess(FeasibilityTolerance, c_x[Head(names)]) THEN FALSE
    ELSE FeasibleLoop(Tail(names), c_x)

\* ConstrainedFunction::is_feasible, lines 146-155
is_feasible(c_x) ==
    /\ Quiescent
    /\ feasibility' = [called |-> TRUE, c_x |-> c_x,
                       result |-> FeasibleLoop(InOrder(Present), c_x)]
    /\ cthrown' = NoError
    /\ UNCHANGED <<cfvars, fnvars, al_terms, objective_terms, phi_call>>

NextStructure ==
    \/ \E o1, o2 \in AddTermOutcomes : CF_add_term(o1, o2)
    \/ \E n \in Names : \E o1, o2 \in AddTermOutcomes : add_constraint_term(n, o1, o2)
    \/ \E c_x \in UserStateValues : is_feasible(c_x)
    \/ (solves = 0 /\ SolveBegin)
    \/ SolverCall
    \/ OuterStep

InitStructure ==
    /\ Constructed
    /\ NoFunction
    /\ NoStructure

SpecStructure == InitStructure /\ [][NextStructure]_vars

\* --------------------------------------------------------------------- Phi
\* t, the value of the wrapped term, is a multiple of 1/TDenominator and is
\* held as its numerator; sigma and mu are integers.  A value Phi returns
\* is held as its numerator over 2 * TDenominator^2 * mu, a gradient entry
\* as its numerator over TDenominator: the arithmetic is exact.
TDenominator == 20
TValues == {-60, -40, -30, -20, -10, -6, -2, -1, 0, 1, 10}
SigmaValues == {0, 1, 2, 3}
MuValues == {1, 2, 10}
\* the entry of the gradient the wrapped term wrote
TermGradientValues == {1, -2}
NotEvaluated == [branch |-> 0]

\* Phi::evaluate(variables) with mu * t*t for (mu / 2) * t*t
Phi_evaluate_FullSquare(t, sigma, m) ==
    IF 0 - t * m - sigma * TDenominator <= 0
    THEN [branch |-> 1,
          value |-> 2 * TDenominator * m * sigma * t + 2 * m * m * t * t]
    ELSE [branch |-> 2,
          value |-> 0 - TDenominator * TDenominator * sigma * sigma]

\* Phi::evaluate(variables), lines 51-60; the test -t - sigma/mu <= 0 is
\* scaled by mu * TDenominator > 0
Phi_evaluate(t, sigma, m) ==
    IF 0 - t * m - sigma * TDenominator <= 0
    THEN [branch |-> 1,
          value |-> 2 * TDenominator * m * sigma * t + m * m * t * t]
    ELSE [branch |-> 2,
          value |-> 0 - TDenominator * TDenominator * sigma * sigma]

\* Phi::evaluate(variables, gradient), lines 62-84, for one gradient entry g
Phi_evaluate_gradient(t, g, sigma, m) ==
    IF 0 - t * m - sigma * TDenominator <= 0
    THEN [branch |-> 1,
          gradient |-> sigma * TDenominator * g + m * t * g,
          value |-> 2 * TDenominator * m * sigma * t + m * m * t * t]
    ELSE [branch |-> 2,
          gradient |-> 0,
          value |-> 0 - TDenominator * TDenominator * sigma * sigma]

\* one Phi term with its sigma and mu, and the wrapped term's value and
\* gradient entry at the point of evaluation
InitPhi ==
    /\ phi_call \in [constructed : {TRUE}, t : TValues, g : TermGradientValues,
                     sigma : SigmaValues, mu : MuValues,
                     value_only : {NotEvaluated}, with_gradient : {NotEvaluated}]
    /\ al_terms = <<>>
    /\ objective_terms = 0
    /\ cthrown = ""
    /\ feasibility = NoCall
    /\ NoConstrainedFunction
    /\ NoFunction

EvaluateValue ==
    /\ phi_call.constructed
    /\ phi_call.value_only = NotEvaluated
    /\ phi_call' = [phi_call EXCEPT !.value_only =
                       Phi_evaluate(phi_call.t, phi_call.sigma, phi_call.mu)]
    /\ UNCHANGED <<cfvars, fnvars, al_terms, objective_terms, cthrown, feasibility>>

EvaluateValueAndGradient ==
    /\ phi_call.constructed
    /\ phi_call.with_gradient = NotEvaluated
    /\ phi_call' = [phi_call EXCEPT !.with_gradient =
                       Phi_evaluate_gradient(phi_call.t, phi_call.g,
                                             phi_call.sigma, phi_call.mu)]
    /\ UNCHANGED <<cfvars, fnvars, al_terms, objective_terms, cthrown, feasibility>>

NextPhi ==
    \/ EvaluateValue
    \/ EvaluateValueAndGradient

SpecPhi == InitPhi /\ [][NextPhi]_vars

\* ------------------------------------------------------------------ claims
ExitsOfOuterLoop == {"FUNCTION_TOLERANCE", "GRADIENT_TOLERANCE", "NO_CONVERGENCE"}

\* ---------------------------------------------------------------- claim C1
Unconstrained ==
    /\ al_variables >= 1
    /\ Present = {}
    /\ function_improvement_tolerance > 0
    /\ dual_change_tolerance > 0
    /\ max_number_of_iterations >= 1

\* C1 as stated: with at least one variable, no constraints, positive
\* tolerances and max_number_of_iterations >= 1, solve returns after exactly
\* one inner-solver call with exit_condition FUNCTION_TOLERANCE.
C1_Original ==
    (Unconstrained /\ pc = "returned")
        => (solver_calls = 1 /\ exit_condition = "FUNCTION_TOLERANCE")

\* C1 amended: under the same conditions solve makes exactly one
\* inner-solver call (one outer iteration) and returns with exit_condition
\* GRADIENT_TOLERANCE: f_prev is NaN on the first iteration, so the
\* function-tolerance stop cannot fire, and the empty dual update stops.
C1_Theorem ==
    Unconstrained =>
        /\ (pc = "call" => solver_calls = 0)
        /\ (pc = "update" => solver_calls = 1)
        /\ (pc = "returned" =>
                (solver_calls = 1 /\ iterations = 0
                 /\ exit_condition = "GRADIENT_TOLERANCE"))

C1_Witness ==
    /\ Unconstrained
    /\ pc = "returned"
    /\ solver_calls = 1
    /\ exit_condition = "GRADIENT_TOLERANCE"

\* ---------------------------------------------------------------- claim C2
\* a step of OuterStep that takes the dual-update branch
IsDualPass == pc = "update" /\ dual_passes' = dual_passes + 1

\* c + lambda/mu > 0, multiplied through by mu > 0
DualActive(n) ==
    VLess(VZero, VAdd(VScale(mu, constraints[n].cached_value), constraints[n].lambda))

\* C2 as stated: in every dual-update pass, for every constraint, if
\* c + lambda/mu > 0 the new lambda is lambda + mu*c and strictly greater
\* than the old lambda; otherwise the new lambda is 0.
C2_Original ==
    [][IsDualPass =>
        \A n \in Present :
            IF DualActive(n)
            THEN /\ constraints'[n].lambda =
                        VAdd(constraints[n].lambda, VScale(mu, constraints[n].cached_value))
                 /\ VLess(constraints[n].lambda, constraints'[n].lambda)
            ELSE constraints'[n].lambda = VZero]_vars

\* C2 amended: in every dual-update pass, for every constraint, if
\* c + lambda/mu > 0 the new lambda is lambda + mu*c, which is strictly
\* positive, and it is greater than the old lambda exactly when c > 0;
\* otherwise the new lambda is 0.
C2_Theorem ==
    [][IsDualPass =>
        \A n \in Present :
            IF DualActive(n)
            THEN /\ constraints'[n].lambda =
                        VAdd(constraints[n].lambda, VScale(mu, constraints[n].cached_value))
                 /\ VLess(VZero, constraints'[n].lambda)
                 /\ VLess(constraints[n].lambda, constraints'[n].lambda)
                        <=> VLess(VZero, constraints[n].cached_value)
            ELSE constraints'[n].lambda = VZero]_vars

\* solve returned on the iteration cap after iterations that were all
\* dual-update passes, the last of which lowered a multiplier (c < 0) and
\* left it positive
C2_Witness ==
    /\ pc = "returned"
    /\ exit_condition = "NO_CONVERGENCE"
    /\ iterations >= 1
    /\ dual_passes = iterations
    /\ \E n \in Present :
          /\ VLess(constraints[n].cached_value, VZero)
          /\ VLess(VZero, constraints[n].lambda)

\* ---------------------------------------------------------------- claim C3
\* C3: the outer loop goes on to another inner-solver call only when the
\* exit_condition the inner solver wrote is a normal termination, never
\* when it is INTERNAL_ERROR.
C3_Claim ==
    (pc = "call" /\ solver_calls >= 1) => exit_condition # "INTERNAL_ERROR"

\* ---------------------------------------------------------------- claim C8
C8_Bound ==
    max_number_of_iterations >= 1 =>
        /\ solver_calls <= max_number_of_iterations
        /\ dual_passes <= max_number_of_iterations
        /\ dual_passes <= solver_calls
        /\ (pc \in {"call", "update"} => iterations < max_number_of_iterations)
        /\ (pc = "update" => solver_calls = iterations + 1)
        /\ (pc = "returned" /\ solver_calls >= 1 =>
                (exit_condition = "NO_CONVERGENCE"
                    <=> iterations = max_number_of_iterations))

\* every step of the loop body returns or completes one more iteration
C8_Progress ==
    pc = "update" =>
        \/ pc' = "returned"
        \/ (pc' = "call" /\ iterations' = iterations + 1)

\* C8: provided every inner-solver call returns, solve terminates; with
\* max_number_of_iterations = K >= 1 it makes at most K inner-solver calls
\* and at most K dual-update passes, and it returns NO_CONVERGENCE exactly
\* when K iterations completed without a function- or dual-tolerance stop.
\* Termination is stated on finite runs: inside the loop iterations < K,
\* and every pass through the loop body returns or increments iterations.
C8_Theorem ==
    /\ []C8_Bound
    /\ [][C8_Progress]_vars

C8_Witness ==
    /\ pc = "returned"
    /\ max_number_of_iterations >= 2
    /\ exit_condition = "NO_CONVERGENCE"
    /\ solver_calls = max_number_of_iterations
    /\ dual_passes >= 1

\* ---------------------------------------------------------------- claim C9
\* C9: whenever solve returns, results.exit_condition is one of
\* FUNCTION_TOLERANCE, GRADIENT_TOLERANCE and NO_CONVERGENCE, written by
\* the outer loop, whatever the inner solver left in the field.
C9_Theorem ==
    pc = "returned" => exit_condition \in ExitsOfOuterLoop

C9_Witness ==
    /\ pc = "returned"
    /\ solver_calls >= 2
    /\ exit_condition = "NO_CONVERGENCE"

\* --------------------------------------------------------------- claim C10
\* C10: in every reachable state, before, during and after any number of
\* solve calls, every constraint's multiplier lambda is >= 0.
C10_Theorem ==
    \A n \in Present : VLeq(VZero, constraints[n].lambda)

\* a second solve is running; one multiplier is positive and another one
\* was clamped to 0 by a dual update on a satisfied constraint
C10_Witness ==
    /\ solves = 2
    /\ dual_passes >= 1
    /\ \E n \in Present : VLess(VZero, constraints[n].lambda)
    /\ \E n \in Present :
          /\ constraints[n].lambda = VZero
          /\ VLess(constraints[n].cached_value, VZero)

RECURSIVE SumFun(_, _)
\* F[1] + ... + F[n]
SumFun(F, n) == IF n = 0 THEN 0 ELSE F[n] + SumFun(F, n - 1)

\* ---------------------------------------------------------------- claim C4
\* the sum of solver_dimension over the first k inserted variables
SolverDimensionsOfFirst(k) ==
    SumFun([j \in 1..k |-> variables[order[j]].solver_dimension], k)

\* C4: after any sequence of add_variable calls the sum of solver_dimension
\* over all registered variables equals number_of_scalars, and each
\* variable's global_index equals the sum of solver_dimension of all
\* variables registered strictly earlier.
C4_Claim ==
    pc = "none" =>
        /\ SolverDimensionsOfFirst(Len(order)) = number_of_scalars
        /\ \A k \in 1..Len(order) :
              variables[order[k]].global_index = SolverDimensionsOfFirst(k - 1)

\* ---------------------------------------------------------------- claim C5
AddTermErrors ==
    {"Function::add_term: incorrect number of arguments.",
     "Function::add_term: unknown variable.",
     "Function::add_term: variable dimension does not match term."}

\* the three conditions on a term record
TermRecordValid(rec) ==
    /\ Len(rec.user_variables) = number_of_variables(rec.term)
    /\ \A var \in 1..Len(rec.user_variables) :
          /\ variables[rec.user_variables[var]] # NoVariable
          /\ variables[rec.user_variables[var]].user_dimension
                = variable_dimension(rec.term, var)

C5_Stored == pc = "none" => \A i \in 1..Len(terms) : TermRecordValid(terms[i])

C5_Step ==
    /\ terms' # terms =>
          /\ Len(terms') = Len(terms) + 1
          /\ terms = SubSeq(terms', 1, Len(terms))
          /\ TermRecordValid(terms'[Len(terms')])
          /\ thrown' = NoError
    /\ thrown' \in AddTermErrors => terms' = terms

\* C5: add_term succeeds only if the argument count equals the term's
\* arity, every argument is a registered variable and every argument's
\* user_dimension equals the term's declared dimension; a failing add_term
\* appends no term record, so every stored term record satisfies all three
\* conditions.
C5_Theorem ==
    /\ []C5_Stored
    /\ [][C5_Step]_vars

\* a term is stored and a later add_term was rejected for its dimensions
C5_Witness ==
    /\ Len(terms) >= 1
    /\ thrown = "Function::add_term: variable dimension does not match term."

\* ---------------------------------------------------------------- claim C6
\* whether term i fails at the current x
Fails(i) == BodyError(hessian_kind, terms[i], TermArguments(x, terms[i])) # NoError

\* the failure thread t met last among the terms it has run
LastFailure(t) ==
    LET failed == {i \in done : assignment[i] = t /\ Fails(i)}
    IN IF failed = {} THEN NoError
       ELSE LET i == CHOOSE j \in failed : \A m \in failed : m <= j
            IN BodyError(hessian_kind, terms[i], TermArguments(x, terms[i]))

LowestFailedSlot ==
    CHOOSE t \in 1..number_of_threads :
        /\ evaluation_errors[t] # NoError
        /\ \A u \in 1..(t - 1) : evaluation_errors[u] = NoError

\* C6: with the OpenMP term loop, a failing Term never ends the loop: the
\* failure is stored in the slot of the thread that ran the term, the
\* remaining terms are still run, and after the join one error is raised,
\* with the message of the lowest-indexed non-empty slot.
C6_Theorem ==
    use_openmp =>
        /\ epc = "terms" =>
              /\ thrown = NoError
              /\ \A t \in 1..number_of_threads : evaluation_errors[t] = LastFailure(t)
        /\ epc = "raised" =>
              /\ done = 1..Len(terms)
              /\ \A t \in 1..number_of_threads : evaluation_errors[t] = LastFailure(t)
              /\ \E t \in 1..number_of_threads : evaluation_errors[t] # NoError
              /\ thrown = evaluation_errors[LowestFailedSlot]
        /\ epc = "returned" => \A i \in 1..Len(terms) : ~Fails(i)

\* two threads each met a failure, with different messages, and the first
\* slot's message was raised
C6_Witness ==
    /\ use_openmp
    /\ epc = "raised"
    /\ number_of_threads = 2
    /\ evaluation_errors[1] # NoError
    /\ evaluation_errors[2] # NoError
    /\ evaluation_errors[1] # evaluation_errors[2]
    /\ thrown = evaluation_errors[1]

\* ---------------------------------------------------------------- claim C7
\* the transposed Jacobian of t_to_x applied to a user-space gradient
PullBack(cov, g) == <<g[1] + 2 * g[2]>>

\* what argument var of term i adds to entry r of the gradient
Contribution(i, var, r) ==
    LET v == variables[terms[i].user_variables[var]]
        g == TermGradient(terms[i].term, TermArguments(x, terms[i]))[var]
        k == r - v.global_index
    IN IF v.change_of_variables = NULL
       THEN IF k \in 1..v.user_dimension THEN g[k] ELSE 0
       ELSE IF k \in 1..v.solver_dimension
            THEN PullBack(v.change_of_variables, g)[k] ELSE 0

\* the same with every per-argument gradient scattered as it is
DirectContribution(i, var, r) ==
    LET v == variables[terms[i].user_variables[var]]
        g == TermGradient(terms[i].term, TermArguments(x, terms[i]))[var]
        k == r - v.global_index
    IN IF k \in 1..v.user_dimension THEN g[k] ELSE 0

SumOfTermValues ==
    SumFun([i \in 1..Len(terms) |-> TermValue(terms[i].term, TermArguments(x, terms[i]))],
           Len(terms))

SumOfContributions(r) ==
    SumFun([i \in 1..Len(terms) |->
                SumFun([var \in 1..Len(terms[i].user_variables) |-> Contribution(i, var, r)],
                       Len(terms[i].user_variables))],
           Len(terms))

SumOfDirectContributions(r) ==
    SumFun([i \in 1..Len(terms) |->
                SumFun([var \in 1..Len(terms[i].user_variables) |->
                            DirectContribution(i, var, r)],
                       Len(terms[i].user_variables))],
           Len(terms))

\* C7 as stated: for any variables, terms, x, thread count and assignment of
\* terms to threads, evaluate(x, gradient) returns the sum of the term
\* values and a gradient that is the element-wise sum of every term's
\* per-argument gradients scattered at the arguments' global_index.
C7_Original ==
    (epc = "returned" /\ with_gradient) =>
        /\ value = SumOfTermValues
        /\ gradient = [r \in 1..number_of_scalars |-> SumOfDirectContributions(r)]

\* C7 amended: the gradient is the element-wise sum, over the terms and
\* their arguments, of the per-argument gradient scattered at the
\* argument's global_index when the argument has no change of variables,
\* and of its pull-back through the change of variables (update_gradient)
\* added at global_index when it has one; value and gradient do not depend
\* on the thread count or on the assignment of terms to threads.
C7_Theorem ==
    (epc = "returned" /\ with_gradient) =>
        /\ value = SumOfTermValues
        /\ gradient = [r \in 1..number_of_scalars |-> SumOfContributions(r)]

\* two terms ran on different threads, one of them on a variable with a
\* change of variables
C7_Witness ==
    /\ epc = "returned"
    /\ with_gradient
    /\ Len(terms) = 2
    /\ number_of_threads = 2
    /\ assignment[1] # assignment[2]
    /\ \E i \in 1..2, var \in 1..2 :
          /\ var <= Len(terms[i].user_variables)
          /\ variables[terms[i].user_variables[var]].change_of_variables # NULL
    /\ \E r \in 1..number_of_scalars : SumOfContributions(r) # SumOfDirectContributions(r)

\* --------------------------------------------------------------- claim C11
\* the (row, column) pairs of a list of triplets
IndicesOf(triplets) == {<<triplets[k][1], triplets[k][2]>> : k \in 1..Len(triplets)}

\* C11: for the same variables and terms, every (row, column) for which the
\* numeric sparse-Hessian evaluate emits a triplet is also emitted by
\* create_sparse_hessian.
C11_Theorem ==
    (epc = "returned" /\ hessian_kind = "sparse" /\ pattern.written)
        => IndicesOf(hessian) \subseteq IndicesOf(pattern.triplets)

\* a sparse evaluate returned the triplets of two terms, one of them with
\* two arguments (blocks off the diagonal), after create_sparse_hessian
C11_Witness ==
    /\ epc = "returned"
    /\ hessian_kind = "sparse"
    /\ pattern.written
    /\ Len(terms) = 2
    /\ \E i \in 1..2 : terms[i].term = "Dot"
    /\ \E k \in 1..Len(hessian) : hessian[k][1] # hessian[k][2] /\ hessian[k][3] # 0

\* --------------------------------------------------------------- claim C12
\* some argument of some added term is a variable with a change of variables
HasChangedArgument ==
    \E i \in 1..Len(terms) : \E var \in 1..Len(terms[i].user_variables) :
        variables[terms[i].user_variables[var]].change_of_variables # NULL

\* C12: on a Function one of whose term arguments has a change of
\* variables, evaluate with a dense or a sparse Hessian output fails with an
\* error and returns no Hessian, and the gradient-only evaluate succeeds: it
\* returns unless a Term itself throws.
C12_Claim ==
    (epc \in {"returned", "raised", "crashed"} /\ with_gradient /\ HasChangedArgument) =>
        IF hessian_kind = "none"
        THEN \/ epc = "returned"
             \/ /\ epc = "raised"
                /\ \E i \in 1..Len(terms) :
                      TermError(terms[i].term, TermArguments(x, terms[i])) # NoError
        ELSE epc = "raised"

\* --------------------------------------------------------------- claim C16
\* what block (a, b) of term i puts at entry (r, c), 1-based, of the matrix
BlockEntry(i, a, b, r, c) ==
    LET va == variables[terms[i].user_variables[a]]
        vb == variables[terms[i].user_variables[b]]
        row == r - va.global_index
        col == c - vb.global_index
    IN IF /\ row \in 1..variable_dimension(terms[i].term, a)
          /\ col \in 1..variable_dimension(terms[i].term, b)
       THEN TermHessian(terms[i].term, TermArguments(x, terms[i]))[a][b][row][col]
       ELSE 0

\* the sum over all terms and argument pairs of what they put at (r, c)
SumOfBlockEntries(r, c) ==
    SumFun([i \in 1..Len(terms) |->
                SumFun([a \in 1..number_of_variables(terms[i].term) |->
                            SumFun([b \in 1..number_of_variables(terms[i].term) |->
                                        BlockEntry(i, a, b, r, c)],
                                   number_of_variables(terms[i].term))],
                       number_of_variables(terms[i].term))],
           Len(terms))

\* every term's blocks are symmetric taken together: block (a, b) is the
\* transpose of block (b, a)
BlocksSymmetric ==
    \A i \in 1..Len(terms) : \A a, b \in 1..number_of_variables(terms[i].term) :
        \A row \in 1..variable_dimension(terms[i].term, a) :
            \A col \in 1..variable_dimension(terms[i].term, b) :
                TermHessian(terms[i].term, TermArguments(x, terms[i]))[a][b][row][col]
                    = TermHessian(terms[i].term, TermArguments(x, terms[i]))[b][a][col][row]

\* C16: on a Function whose variables have no change of variables,
\* evaluate(x, gradient, dense_hessian) writes an N x N matrix whose entry
\* (r, c) is the sum, over all terms, argument pairs (a, b) and in-block
\* positions (i, j) with global_index_a + i = r and global_index_b + j = c,
\* of the term's block (a, b) entry (i, j); when every term's blocks are
\* symmetric taken together, the matrix is symmetric.
C16_Theorem ==
    (/\ epc = "returned"
     /\ hessian_kind = "dense"
     /\ \A id \in Registered : variables[id].change_of_variables = NULL) =>
        /\ hessian = [r \in 1..number_of_scalars |->
                        [c \in 1..number_of_scalars |-> SumOfBlockEntries(r, c)]]
        /\ BlocksSymmetric =>
              \A r, c \in 1..number_of_scalars : hessian[r][c] = hessian[c][r]

\* two terms on the same two variables: each entry off the diagonal holds
\* the sum of both terms' blocks
C16_Witness ==
    /\ epc = "returned"
    /\ hessian_kind = "dense"
    /\ \A id \in Registered : variables[id].change_of_variables = NULL
    /\ Len(terms) = 2
    /\ number_of_scalars = 3
    /\ \E r, c \in 1..number_of_scalars : r # c /\ hessian[r][c] = 4

\* --------------------------------------------------------------- claim C14
C14_Step ==
    /\ \A id \in Ids :
          variables[id] # NoVariable =>
              /\ variables'[id] # NoVariable
              /\ variables'[id].global_index = variables[id].global_index
    /\ number_of_scalars' >= number_of_scalars
    /\ (\A id \in Ids : variables[id] # NoVariable <=> variables'[id] # NoVariable) =>
          /\ variables' = variables
          /\ order' = order
          /\ number_of_scalars' = number_of_scalars

\* C14: once a variable has a global_index no later call changes it, and
\* number_of_scalars never decreases; a call that registers no new identity
\* (add_variable on a registered identity, add_term, evaluate) changes no
\* descriptor, no global_index and not number_of_scalars.
C14_Theorem == [][C14_Step]_vars

\* two variables are registered, the second one behind the first, a term
\* uses them, and the last call added one of them again
C14_Witness ==
    /\ Len(order) = 2
    /\ variables[order[2]].global_index > 0
    /\ Len(terms) >= 1
    /\ thrown = "Function::add_variable: dimension mismatch."

\* --------------------------------------------------------------- claim C15
\* a step on which solve returns GRADIENT_TOLERANCE
ReturnsGradientTolerance ==
    /\ pc # "returned"
    /\ pc' = "returned"
    /\ exit_condition' = "GRADIENT_TOLERANCE"

\* the largest |lambda| after the step, and the largest change of a lambda
\* on the step (0 when there is no constraint)
C15_MaxLambda ==
    CHOOSE m \in {VZero} \cup {VAbs(constraints'[n].lambda) : n \in Present} :
        \A n \in Present : VLeq(VAbs(constraints'[n].lambda), m)
C15_MaxChange ==
    CHOOSE m \in {VZero} \cup {VAbs(VSub(constraints[n].lambda, constraints'[n].lambda)) :
                                    n \in Present} :
        \A n \in Present :
            VLeq(VAbs(VSub(constraints[n].lambda, constraints'[n].lambda)), m)

C15_Step ==
    ReturnsGradientTolerance =>
        /\ pc = "update"
        /\ dual_passes' = dual_passes + 1
        /\ LeqNu(max_violation, nuExp)
        \* max_change / (max_lambda + tol) < tol, tol in tenths
        /\ VLess(VZero, VAdd(C15_MaxLambda, V(dual_change_tolerance, 0)))
        /\ VLess(VScale(10, C15_MaxChange),
                 VScale(dual_change_tolerance,
                        VAdd(C15_MaxLambda, V(dual_change_tolerance, 0))))
        /\ VLess(max_violation, ViolationTolerance)

C15_Exit ==
    (pc = "returned" /\ exit_condition = "GRADIENT_TOLERANCE") =>
        \A n \in Present : VLess(constraints[n].cached_value, ViolationTolerance)

\* C15: solve returns GRADIENT_TOLERANCE only at the end of a dual-update
\* pass (max_violation <= nu) in which max_change / (max_lambda +
\* dual_change_tolerance) < dual_change_tolerance and max_violation < 1e-8
\* both held; on that exit every constraint's cached value is below 1e-8.
C15_Theorem ==
    /\ [][C15_Step]_vars
    /\ []C15_Exit

\* solve returned GRADIENT_TOLERANCE after a dual update that raised a
\* multiplier on a constraint violated by less than 1e-8
C15_Witness ==
    /\ pc = "returned"
    /\ exit_condition = "GRADIENT_TOLERANCE"
    /\ dual_passes >= 1
    /\ \E n \in Present :
          /\ VLess(VZero, constraints[n].cached_value)
          /\ VLess(VZero, constraints[n].lambda)

\* --------------------------------------------------------------- claim C17
\* C17: when the outer loop of any solve call makes its first inner-solver
\* call, on the first solve and on every later one, mu is 10 and every
\* constraint's multiplier lambda is 0.
C17_Claim ==
    (pc = "call" /\ solver_calls = 0) =>
        /\ mu = 10
        /\ \A n \in Present : constraints[n].lambda = VZero

\* --------------------------------------------------------------- claim C18
C18_Step ==
    \A n \in Present :
        (/\ constraints[n].lambda = VZero
         /\ pc = "update" => VLeq(constraints[n].cached_value, VZero))
            => constraints'[n].lambda = VZero

\* C18: a constraint whose multiplier is 0 when solve starts and whose
\* value is <= 0 after every inner-solver call keeps lambda = 0 through
\* every outer iteration, dual update or penalty increase, and at return.
\* Stated step by step: no step of solve moves a multiplier off 0 unless
\* the step is a loop body run on a positive cached value.
C18_Theorem == [][C18_Step]_vars

\* solve returned after a penalty increase and a dual update; one
\* constraint stayed inactive with lambda = 0 while another one's multiplier
\* was raised
C18_Witness ==
    /\ pc = "returned"
    /\ solves = 1
    /\ iterations = 2
    /\ dual_passes = 1
    /\ \E n \in Present :
          /\ VLess(constraints[n].cached_value, VZero)
          /\ constraints[n].lambda = VZero
    /\ \E n \in Present : VLess(VZero, constraints[n].lambda)

\* --------------------------------------------------------------- claim C13
AlreadyAdded == "add_constraint_term: Term already added."

\* the number of Phi terms of constraint n in augmented_lagrangian
PhiCount(n) == Cardinality({k \in 1..Len(al_terms) : al_terms[k] = PhiTerm(n)})

\* a call that ends with the exception of line 131 leaves every constraint
\* (its terms, lambda, cached value), the terms of the augmented Lagrangian,
\* the objective and mu as they were
C13_Step ==
    cthrown' = AlreadyAdded =>
        /\ constraints' = constraints
        /\ al_terms' = al_terms
        /\ objective_terms' = objective_terms
        /\ mu' = mu

\* a name stands for one constraint term and at most one Phi
C13_Unique ==
    \A n \in Names :
        /\ PhiCount(n) <= 1
        /\ constraints[n] # NoConstraint => constraints[n].nterms <= 1

\* C13: add_constraint_term called with a name that already exists fails
\* and changes nothing: the existing constraint's term, its lambda and
\* cached value and the term list of the augmented Lagrangian are as
\* before, so constraint names stay unique.
C13_Theorem == [][C13_Step]_vars /\ []C13_Unique

\* the call failed on a constraint that a solve has given a multiplier
C13_Witness ==
    /\ cthrown = AlreadyAdded
    /\ \E n \in Names :
        /\ constraints[n] # NoConstraint
        /\ VLess(VZero, constraints[n].lambda)
        /\ constraints[n].cached_value # VZero
        /\ PhiCount(n) = 1

\* --------------------------------------------------------------- claim C20
C20_Result ==
    feasibility.called =>
        (feasibility.result <=>
            \A n \in Present : VLeq(feasibility.c_x[n], FeasibilityTolerance))

C20_Step ==
    feasibility'.called => (constraints' = constraints /\ mu' = mu)

\* C20: is_feasible() returns true if and only if every constraint's value
\* at the current user state is <= 1e-12 (true when there are no
\* constraints), and it changes no multiplier, no cached constraint value
\* and not mu.
C20_Theorem == [][C20_Step]_vars /\ []C20_Result

\* is_feasible answered true after a solve, with one constraint exactly at
\* 1e-12 and a positive multiplier
C20_Witness ==
    /\ feasibility.called
    /\ feasibility.result
    /\ Present = Names
    /\ \E n \in Names : feasibility.c_x[n] = FeasibilityTolerance
    /\ \E n \in Names : VLess(VZero, constraints[n].lambda)
    /\ mu = 10

\* --------------------------------------------------------------- claim C19
\* -t = sigma/mu
OnSwitchingSurface ==
    phi_call.constructed /\ 0 - phi_call.t * phi_call.mu = phi_call.sigma * TDenominator

\* sigma*t + (mu/2)*t^2 and -sigma^2/(2*mu), over 2 * TDenominator^2 * mu
FirstBranchValue ==
    phi_call.mu * (2 * TDenominator * phi_call.sigma * phi_call.t
                   + phi_call.mu * phi_call.t * phi_call.t)
SecondBranchValue == 0 - phi_call.sigma * phi_call.sigma * TDenominator * TDenominator
\* sigma + mu*t, over TDenominator
FirstBranchFactor == phi_call.sigma * TDenominator + phi_call.mu * phi_call.t

\* C19: for any sigma >= 0 and mu > 0, at the switching surface
\* -t = sigma/mu the two branches of Phi agree: the first-branch value
\* equals the second-branch value -sigma^2/(2*mu) and the first-branch
\* gradient factor (sigma + mu*t) is 0, matching the zero gradient of the
\* second branch; the value-only and the value-with-gradient evaluator
\* select the same branch and return the same value for every t.
C19_Theorem ==
    /\ (OnSwitchingSurface /\ phi_call.value_only # NotEvaluated) =>
          /\ phi_call.value_only.value = FirstBranchValue
          /\ phi_call.value_only.value = SecondBranchValue
    /\ (OnSwitchingSurface /\ phi_call.with_gradient # NotEvaluated) =>
          /\ FirstBranchFactor = 0
          /\ phi_call.with_gradient.gradient = 0
          /\ phi_call.with_gradient.value = SecondBranchValue
    /\ (/\ phi_call.constructed
        /\ phi_call.value_only # NotEvaluated
        /\ phi_call.with_gradient # NotEvaluated) =>
          /\ phi_call.value_only.branch = phi_call.with_gradient.branch
          /\ phi_call.value_only.value = phi_call.with_gradient.value

\* both evaluators have run on the surface with a positive multiplier
C19_Witness ==
    /\ OnSwitchingSurface
    /\ phi_call.sigma > 0
    /\ phi_call.value_only # NotEvaluated
    /\ phi_call.with_gradient # NotEvaluated

\* --------------------------------------------------------------- claim C21
\* an outer iteration whose function-tolerance stop does not fire and whose
\* largest violation is above nu
PenaltyIteration ==
    /\ pc = "update"
    /\ ~FunctionToleranceStop(f, f_prev, function_improvement_tolerance)
    /\ \E n \in Present : ~LeqNu(constraints[n].cached_value, nuExp)

\* mu is multiplied by 100, nu = 10^(-nuExp/10) is mu^(-0.1) when the loop
\* goes on, and no multiplier is written
C21_Step ==
    PenaltyIteration =>
        /\ mu' = 100 * mu
        /\ (mu = 10 => mu' = 1000)
        /\ (pc' = "call" => Pow(10, nuExp') = mu')
        /\ \A n \in Names :
              IF constraints[n] = NoConstraint
              THEN constraints'[n] = NoConstraint
              ELSE constraints'[n].lambda = constraints[n].lambda

\* C21: in any outer iteration of solve where the function-tolerance stop
\* does not fire and max_violation > nu, mu becomes 100 times its previous
\* value, nu becomes (new mu)^(-0.1), and every constraint's lambda is left
\* unchanged; starting from mu = 10 the first such iteration gives mu = 1000.
C21_Theorem == [][C21_Step]_vars

\* the first iteration of a second solve took the penalty branch while a
\* multiplier of the first solve was positive
C21_Witness ==
    /\ pc = "call"
    /\ iterations = 1
    /\ mu = 1000
    /\ nuExp = 3
    /\ \E n \in Present : VLess(VZero, constraints[n].lambda)

\* --------------------------------------------------------------- claim C22
\* the multipliers of all constraints
Lambdas(cs) ==
    [n \in Names |-> IF cs[n] = NoConstraint THEN VZero ELSE cs[n].lambda]

\* the inner-solver call writes neither mu nor a multiplier, and an
\* iteration whose function-tolerance test holds returns FUNCTION_TOLERANCE
\* without writing them
C22_Step ==
    /\ pc = "call" =>
          (mu' = mu /\ Lambdas(constraints') = Lambdas(constraints))
    /\ (/\ pc = "update"
        /\ FunctionToleranceStop(f, f_prev, function_improvement_tolerance)) =>
          /\ pc' = "returned"
          /\ exit_condition' = "FUNCTION_TOLERANCE"
          /\ mu' = mu
          /\ Lambdas(constraints') = Lambdas(constraints)

\* C22: the function-tolerance test of an outer iteration is decided
\* before that iteration's dual or penalty update: when
\* |f - f_prev| / (|f| + tol_f) < tol_f holds, solve returns
\* FUNCTION_TOLERANCE with mu and every lambda equal to the values they had
\* during that iteration's inner-solver call.
C22_Theorem == [][C22_Step]_vars

\* solve returned FUNCTION_TOLERANCE from its second iteration while a
\* constraint was violated by 2, which a penalty update would have answered
C22_Witness ==
    /\ pc = "returned"
    /\ exit_condition = "FUNCTION_TOLERANCE"
    /\ solver_calls = 2
    /\ mu = 10
    /\ \E n \in Present : constraints[n].cached_value = V(20, 0)

\* --------------------------------------------------------------- claim C23
\* the per-worker vectors have the sizes the current structure asks for
StorageMatchesStructure ==
    /\ local_storage.threads = number_of_threads
    /\ local_storage.scalars = number_of_scalars
    /\ \A i \in 1..Len(terms) : Len(terms[i].user_variables) <= local_storage.arity
    /\ \A id \in Ids :
          variables[id] # NoVariable =>
              variables[id].user_dimension <= local_storage.dimension

\* inside the term loop of an evaluate with a gradient
C23_InTermLoop ==
    (epc = "terms" /\ with_gradient) =>
        /\ StorageMatchesStructure
        /\ Len(thread_gradient_storage) = number_of_threads
        /\ \A t \in 1..number_of_threads :
              Len(thread_gradient_storage[t]) = number_of_scalars

\* storage that is marked as allocated was sized for the current structure
C23_NeverStale == local_storage_allocated => StorageMatchesStructure

\* C23: for any interleaving of add_variable, add_term,
\* set_number_of_threads and gradient/Hessian evaluate calls, every
\* evaluate enters its term loop with per-worker storage matching the
\* current structure: one gradient accumulator of length number_of_scalars
\* per worker, and a gradient scratch with at least (max arity over current
\* terms) rows of at least (max user_dimension over current variables)
\* entries; storage sized before a later add is never reused.
C23_Theorem == C23_InTermLoop /\ C23_NeverStale

\* an evaluate is in its term loop with two workers on storage whose
\* vectors were resized after an earlier allocation
C23_Witness ==
    /\ epc = "terms"
    /\ with_gradient
    /\ local_storage.resized
    /\ number_of_threads = 2
    /\ number_of_scalars >= 2
    /\ Len(terms) >= 1

\* --------------------------------------------------------------- claim C24
AddVariableErrors ==
    {"Function::add_variable: dimension mismatch.",
     "Function::add_variable: dimension does not match the change of variables."}

\* a call that ends with one of the two exceptions writes no descriptor
C24_Step ==
    thrown' \in AddVariableErrors =>
        /\ variables' = variables
        /\ order' = order
        /\ number_of_scalars' = number_of_scalars

\* the dimensions of every registered descriptor agree with its change of
\* variables
C24_Descriptors ==
    pc = "none" =>
        \A id \in Ids :
            variables[id] # NoVariable =>
                IF variables[id].change_of_variables # NULL
                THEN /\ variables[id].user_dimension
                            = x_dimension(variables[id].change_of_variables)
                     /\ variables[id].solver_dimension
                            = t_dimension(variables[id].change_of_variables)
                ELSE variables[id].user_dimension = variables[id].solver_dimension

\* C24: an add_variable call that fails (same identity re-added with a
\* different dimension, or a dimension that disagrees with the attached
\* change of variables' x dimension) leaves the registry as it was: no
\* descriptor is added for that identity, no existing descriptor changes
\* and number_of_scalars is unchanged, so every registered descriptor still
\* satisfies user_dimension == cov.x_dim and solver_dimension == cov.t_dim
\* when a change of variables is attached and user_dimension ==
\* solver_dimension otherwise.
C24_Claim == [][C24_Step]_vars /\ []C24_Descriptors

\* the part of the claim the code keeps: a re-add with another dimension
\* writes nothing
C24_DimensionMismatchStep ==
    thrown' = "Function::add_variable: dimension mismatch." =>
        /\ variables' = variables
        /\ order' = order
        /\ number_of_scalars' = number_of_scalars

C24_KeptPart == [][C24_DimensionMismatchStep]_vars

\* --------------------------------------------------------------- claim C25
\* a call rejected by the inner Function::add_term registers no name
C25_Step ==
    (cthrown' # NoError /\ cthrown' \in AddTermOutcomes) =>
        constraints' = constraints

\* every registered name has one raw term and one Phi
C25_Registered ==
    \A n \in Present :
        /\ constraints[n].nterms = 1
        /\ PhiCount(n) = 1

\* C25: after any sequence of ConstrainedFunction add_term and
\* add_constraint_term calls, including calls rejected because the inner
\* Function::add_term fails (arity, unknown variable or dimension
\* mismatch), every registered constraint name has exactly one raw term in
\* its own Function and exactly one Phi term in the augmented Lagrangian; a
\* rejected add_constraint_term registers no constraint name, so the same
\* name can be added afterwards.
C25_Claim == [][C25_Step]_vars /\ []C25_Registered

\* --------------------------------------------------------------- claim C26
\* every triplet of the list fits an N x N matrix
TripletsInRange(triplets, N) ==
    \A k \in 1..Len(triplets) :
        /\ 0 <= triplets[k][1] /\ triplets[k][1] < N
        /\ 0 <= triplets[k][2] /\ triplets[k][2] < N

\* C26: for any registered variables and terms, including variables whose
\* change of variables gives solver_dimension different from
\* user_dimension, every triplet emitted by create_sparse_hessian has row
\* and column in [0, number_of_scalars), so it fits the N x N matrix that
\* is built from the triplets.
C26_Claim == pattern.written => TripletsInRange(pattern.triplets, number_of_scalars)

\* the triplets are in range when every argument of every term has
\* solver_dimension = user_dimension
C26_EqualDimensions ==
    (/\ pattern.written
     /\ \A i \in 1..Len(terms) : \A var \in 1..Len(terms[i].user_variables) :
           variables[terms[i].user_variables[var]].solver_dimension
               = variables[terms[i].user_variables[var]].user_dimension)
        => TripletsInRange(pattern.triplets, number_of_scalars)

====
